---- MODULE Spec2Model ----
(***************************************************************************)
(* A model of hako's block engine (src/block.rs) over its content model   *)
(* (src/content.rs).  A grapheme is a string; a plain content value       *)
(* (String / Cow<str>) is a sequence of graphemes; a styled content value *)
(* (Styled<C, S>) is a sequence of fragments <<style, text>>.  The type   *)
(* parameter C of Block<C> is the variable C; the build profile           *)
(* (overflow checks on or off) is the variable checked.                   *)
(***************************************************************************)
EXTENDS Integers, Sequences, FiniteSets, TLC

VARIABLES C, checked, blk, last, steps

vars == <<C, checked, blk, last, steps>>

(* ---------------------------------------------------------------- bounds *)
MaxWidth == 4
MaxHeight == 3
MaxPad == 1
MaxDim == 1
MaxSteps == 1
MaxItem == 3

(* ------------------------------------------------------------- graphemes *)
SPACE == " "
NL == "\n"
WIDE == "W"

\* unicode_width: a double-width grapheme takes two columns, a line break none.
GlyphWidth(g) == IF g = WIDE THEN 2 ELSE IF g = NL THEN 0 ELSE 1

Max(a, b) == IF a >= b THEN a ELSE b
Min(a, b) == IF a <= b THEN a ELSE b
SaturatingSub(a, b) == IF a >= b THEN a - b ELSE 0

RECURSIVE SumWidths(_)
SumWidths(t) == IF t = <<>> THEN 0 ELSE GlyphWidth(Head(t)) + SumWidths(Tail(t))

RECURSIVE Flatten(_)
Flatten(ss) == IF ss = <<>> THEN <<>> ELSE Head(ss) \o Flatten(Tail(ss))

(* --------------------------------------------- plain content (String) *)
StrWidth(t) == SumWidths(t)

RECURSIVE StrRepeat(_, _)
StrRepeat(t, n) == IF n = 0 THEN <<>> ELSE t \o StrRepeat(t, n - 1)

\* graphemes(true).take(width): the first `width` graphemes.
StrTruncate(t, width) == SubSeq(t, 1, Min(width, Len(t)))

StrConcatenate(left, right) == left \o right

\* str::lines(): split at line breaks; a final empty line is dropped.
RECURSIVE SplitLines(_, _, _)
SplitLines(t, cur, acc) ==
    IF t = <<>> THEN (IF cur = <<>> THEN acc ELSE Append(acc, cur))
    ELSE IF Head(t) = NL THEN SplitLines(Tail(t), <<>>, Append(acc, cur))
    ELSE SplitLines(Tail(t), Append(cur, Head(t)), acc)

StrLines(t) == SplitLines(t, <<>>, <<>>)

\* The default decision of ContentBlock::overlay: a space in front is transparent.
DefaultLayer(front, back) == IF front = SPACE THEN "Back" ELSE "Front"

\* The decision functions handed to overlay_with: the default one of
\* ContentBlock::overlay, and the constant ones.
Decisions == {"default", "front", "back"}

Decide(f, front, back) ==
    IF f = "front" THEN "Front"
    ELSE IF f = "back" THEN "Back"
    ELSE DefaultLayer(front, back)

\* String::overlay_with and Cow<str>::overlay_with
StrOverlayWith(front, back, f) ==
    [i \in 1..Min(Len(front), Len(back)) |->
        IF Decide(f, front[i], back[i]) = "Front" THEN front[i] ELSE back[i]]

StrOverlay(front, back) == StrOverlayWith(front, back, "default")

(* ------------------------------------------- styled content (Styled) *)
DefaultStyle == "default"

StyledNew(style, text) == << <<style, text>> >>

StyledEmpty == <<>>

StyledGrapheme(g) == << <<DefaultStyle, <<g>> >> >>

RECURSIVE StyledWidth(_)
StyledWidth(fs) == IF fs = <<>> THEN 0 ELSE StrWidth(Head(fs)[2]) + StyledWidth(Tail(fs))

StyledConcatenate(left, right) == left \o right

\* enumerate().cycle().take(m * n): element k (from 0) is <<k % m, fragment>>.
Cycled(fs, n) ==
    [k \in 1..(Len(fs) * n) |-> <<(k - 1) % Len(fs), fs[((k - 1) % Len(fs)) + 1]>>]

\* itertools coalesce: merge the pending element with the next while the
\* indices agree (the merged element gets index 0), else emit it.
RECURSIVE Coalesce(_, _, _)
Coalesce(pending, rest, out) ==
    IF rest = <<>> THEN Append(out, pending[2])
    ELSE IF pending[1] = Head(rest)[1]
         THEN Coalesce(<<0, <<pending[2][1], StrConcatenate(pending[2][2], Head(rest)[2][2])>> >>,
                       Tail(rest), out)
         ELSE Coalesce(Head(rest), Tail(rest), Append(out, pending[2]))

StyledRepeat(fs, n) ==
    LET items == Cycled(fs, n)
    IN  IF items = <<>> THEN <<>> ELSE Coalesce(Head(items), Tail(items), <<>>)

\* take_while of Styled::truncate: <<number of fragments kept, sum>>; the sum
\* includes the width of the first fragment that is refused.
RECURSIVE TakeWhileCapacity(_, _, _, _)
TakeWhileCapacity(fs, width, kept, sum) ==
    IF fs = <<>> THEN <<kept, sum>>
    ELSE IF sum < width
         THEN TakeWhileCapacity(Tail(fs), width, kept + 1, sum + StrWidth(Head(fs)[2]))
         ELSE <<kept, sum + StrWidth(Head(fs)[2])>>

\* `content.width() - n` underflows: a panic with overflow checks.
StyledTruncateUnderflows(fs, width) ==
    LET tw == TakeWhileCapacity(fs, width, 0, 0)
        n == SaturatingSub(tw[2], width)
    IN  n > 0 /\ tw[1] > 0 /\ StrWidth(fs[tw[1]][2]) < n

StyledTruncate(fs, width) ==
    LET tw == TakeWhileCapacity(fs, width, 0, 0)
        kept == SubSeq(fs, 1, tw[1])
        n == SaturatingSub(tw[2], width)
    IN  IF n > 0 /\ tw[1] > 0
        THEN LET f == kept[tw[1]]
                 w == StrWidth(f[2])
                 \* without overflow checks the difference wraps to a huge
                 \* count, and take() keeps every grapheme
                 cut == IF w >= n THEN StrTruncate(f[2], w - n) ELSE f[2]
             IN  Append(SubSeq(kept, 1, tw[1] - 1), <<f[1], cut>>)
        ELSE kept

\* The inner loop of Styled::into_lines over the splits of one fragment:
\* state is <<lines, line>>; k is the position (1 = Only/First).
RECURSIVE IntoLinesSplits(_, _, _, _, _)
IntoLinesSplits(style, splits, k, lines, line) ==
    IF k > Len(splits) THEN <<lines, line>>
    ELSE IF k = 1
         THEN IntoLinesSplits(style, splits, k + 1, lines,
                              StyledConcatenate(line, StyledNew(style, splits[k])))
         ELSE IntoLinesSplits(style, splits, k + 1, Append(lines, line),
                              StyledNew(style, splits[k]))

RECURSIVE IntoLinesFragments(_, _, _)
IntoLinesFragments(fs, lines, line) ==
    IF fs = <<>> THEN Append(lines, line)
    ELSE LET st == IntoLinesSplits(Head(fs)[1], StrLines(Head(fs)[2]), 1, lines, line)
         IN  IntoLinesFragments(Tail(fs), st[1], st[2])

StyledLines(fs) == IntoLinesFragments(fs, <<>>, StyledEmpty)

\* fragment_indexed_graphemes: <<fragment index, grapheme>> per grapheme.
RECURSIVE FragmentIndexedGraphemes(_, _)
FragmentIndexedGraphemes(fs, index) ==
    IF fs = <<>> THEN <<>>
    ELSE [i \in 1..Len(fs[1][2]) |-> <<index, fs[1][2][i]>>]
         \o FragmentIndexedGraphemes(Tail(fs), index + 1)

\* group_by on <<layer, index>> and the fold into fragments.
RECURSIVE GroupFold(_, _, _, _)
GroupFold(items, front, back, out) ==
    IF items = <<>> THEN out
    ELSE LET key == Head(items)[1]
             style == IF key[1] = "Front" THEN front[key[2]][1] ELSE back[key[2]][1]
         IN  IF out # <<>> /\ out[Len(out)][1] = key
             THEN GroupFold(Tail(items), front, back,
                            [out EXCEPT ![Len(out)] =
                                <<key, style, Append(out[Len(out)][3], Head(items)[2])>>])
             ELSE GroupFold(Tail(items), front, back,
                            Append(out, <<key, style, <<Head(items)[2]>> >>))

\* An overlay that gives every run the default style.
StyledOverlayWithUnstyled(front, back, f) ==
    LET fg == FragmentIndexedGraphemes(front, 1)
        bg == FragmentIndexedGraphemes(back, 1)
        chosen == [i \in 1..Min(Len(fg), Len(bg)) |->
                     IF Decide(f, fg[i][2], bg[i][2]) = "Front"
                     THEN << <<"Front", fg[i][1]>>, fg[i][2]>>
                     ELSE << <<"Back", bg[i][1]>>, bg[i][2]>>]
        groups == GroupFold(chosen, front, back, <<>>)
    IN  [i \in 1..Len(groups) |-> <<DefaultStyle, groups[i][3]>>]

\* An overlay that looks every style up in the front content.
StyledOverlayWithFrontStyle(front, back, f) ==
    LET fg == FragmentIndexedGraphemes(front, 1)
        bg == FragmentIndexedGraphemes(back, 1)
        chosen == [i \in 1..Min(Len(fg), Len(bg)) |->
                     IF Decide(f, fg[i][2], bg[i][2]) = "Front"
                     THEN << <<"Front", fg[i][1]>>, fg[i][2]>>
                     ELSE << <<"Back", bg[i][1]>>, bg[i][2]>>]
        groups == GroupFold(chosen, front, back, <<>>)
    IN  [i \in 1..Len(groups) |->
            <<front[Min(groups[i][1][2], Len(front))][1], groups[i][3]>>]

\* Styled::overlay_with
StyledOverlayWith(front, back, f) ==
    LET fg == FragmentIndexedGraphemes(front, 1)
        bg == FragmentIndexedGraphemes(back, 1)
        chosen == [i \in 1..Min(Len(fg), Len(bg)) |->
                     IF Decide(f, fg[i][2], bg[i][2]) = "Front"
                     THEN << <<"Front", fg[i][1]>>, fg[i][2]>>
                     ELSE << <<"Back", bg[i][1]>>, bg[i][2]>>]
        groups == GroupFold(chosen, front, back, <<>>)
    IN  [i \in 1..Len(groups) |-> <<groups[i][2], groups[i][3]>>]

StyledOverlay(front, back) == StyledOverlayWith(front, back, "default")

(* ------------------------------------------ Content, dispatched on C *)
Width(c) == IF C = "String" THEN StrWidth(c) ELSE StyledWidth(c)

Grapheme(g) == IF C = "String" THEN <<g>> ELSE StyledGrapheme(g)

Space == Grapheme(SPACE)

Repeat(c, n) == IF C = "String" THEN StrRepeat(c, n) ELSE StyledRepeat(c, n)

Truncate(c, width) == IF C = "String" THEN StrTruncate(c, width) ELSE StyledTruncate(c, width)

\* Whether truncate panics: only the subtraction of Styled::truncate can.
TruncatePanics(c, width) == C = "Styled" /\ checked /\ StyledTruncateUnderflows(c, width)

IntoLines(c) == IF C = "String" THEN StrLines(c) ELSE StyledLines(c)

Concatenate(left, right) ==
    IF C = "String" THEN StrConcatenate(left, right) ELSE StyledConcatenate(left, right)

OverlayWith(front, back) == IF C = "String" THEN StrOverlay(front, back) ELSE StyledOverlay(front, back)

OverlayWithDecision(front, back, f) ==
    IF C = "String" THEN StrOverlayWith(front, back, f) ELSE StyledOverlayWith(front, back, f)

\* Congruent::try_from succeeds exactly when the widths agree.
IsCongruent(left, right) == Width(left) = Width(right)

\* ContentSlice::width: the widest line, 0 without lines.
RECURSIVE SliceWidth(_)
SliceWidth(lines) ==
    IF lines = <<>> THEN 0 ELSE Max(Width(Head(lines)), SliceWidth(Tail(lines)))

(* ---------------------------------------------------------------- blocks *)
\* ModalBlock::Empty(EmptyBlock {width, height})
EmptyBlock(width, height) == [mode |-> "Empty", width |-> width, height |-> height]

\* ModalBlock::Content(ContentBlock {lines})
ContentBlock(lines) == [mode |-> "Content", lines |-> lines]

\* The outcome of a call that panicked.
Panic == [mode |-> "Panic"]

BlockWidth(b) == IF b.mode = "Empty" THEN b.width ELSE SliceWidth(b.lines)

BlockHeight(b) == IF b.mode = "Empty" THEN b.height ELSE Len(b.lines)

\* Result::unwrap on the outcome of a fill: Err(EmptyBlock) panics.
Unwrap(r) == IF r.mode = "Content" THEN r ELSE Panic

\* A normalize that pads nothing.
NormalizeUnpadded(lines, width) == lines

\* ContentBlock::normalize
Normalize(lines, width) ==
    [i \in 1..Len(lines) |->
        LET n == SaturatingSub(width, Width(lines[i]))
        IN  IF n > 0 THEN Concatenate(lines[i], Repeat(Grapheme(SPACE), n)) ELSE lines[i]]

\* impl From<Vec<C>> for ContentBlock<C>
ContentFrom(lines) == ContentBlock(Normalize(lines, SliceWidth(lines)))

(* --------------------------------------------------------- EmptyBlock *)
EmptyPadToWidthAtRight(b, width) == EmptyBlock(Max(b.width, width), b.height)

EmptyPadToHeightAtBottom(b, height) == EmptyBlock(b.width, Max(b.height, height))

EmptyJoinLeftToRightAtTop(left, right) ==
    EmptyBlock(left.width + right.width, Max(left.height, right.height))

EmptyJoinTopToBottomAtLeft(top, bottom) ==
    EmptyBlock(Max(top.width, bottom.width), top.height + bottom.height)

EmptyOverlay(front, back) ==
    EmptyBlock(Max(front.width, back.width), Max(front.height, back.height))

\* (0..a).step_by(b).len(), for b > 0
DivCeiling(a, b) == (a + b - 1) \div b

\* The lines after the cycling loop and the pops of fill, for n > 0 lines.
FillCycle(lines, height) == [k \in 1..height |-> lines[((k - 1) % Len(lines)) + 1]]

\* The width repair of one line of fill (its width is > 0 when it is repeated).
FillRepair(line, width) ==
    LET wide == IF Width(line) < width
                THEN Repeat(line, DivCeiling(width, Width(line)))
                ELSE line
    IN  Truncate(wide, width)

FillRepairPanics(line, width) ==
    \/ Width(line) < width /\ Width(line) = 0
    \/ /\ ~(Width(line) < width /\ Width(line) = 0)
       /\ TruncatePanics(IF Width(line) < width
                         THEN Repeat(line, DivCeiling(width, Width(line)))
                         ELSE line, width)

\* A fill that refuses a zero width in place of a zero height.
EmptyFillContentWidthGuard(b, content) ==
    IF b.width = 0 THEN b
    ELSE LET lines == IntoLines(content)
         IN  IF Len(lines) = 0 THEN Panic
             ELSE LET cycled == FillCycle(lines, b.height)
                  IN  IF \E k \in 1..b.height : FillRepairPanics(cycled[k], b.width)
                      THEN Panic
                      ELSE ContentFrom([k \in 1..b.height |-> FillRepair(cycled[k], b.width)])

\* impl Fill<C, C> for EmptyBlock: Ok is a Content block, Err the Empty block.
EmptyFillContent(b, content) ==
    IF b.height = 0 THEN b
    ELSE LET lines == IntoLines(content)
         IN  IF Len(lines) = 0 THEN Panic
             ELSE LET cycled == FillCycle(lines, b.height)
                  IN  IF \E k \in 1..b.height : FillRepairPanics(cycled[k], b.width)
                      THEN Panic
                      ELSE ContentFrom([k \in 1..b.height |-> FillRepair(cycled[k], b.width)])

\* impl Fill<C, Grapheme> for EmptyBlock
EmptyFillGrapheme(b, glyph) ==
    IF b.height = 0 THEN b
    ELSE ContentBlock([k \in 1..b.height |-> Repeat(Grapheme(glyph), b.width)])

(* ------------------------------------------------------- ContentBlock *)
ContentPush(b, content) == ContentFrom(b.lines \o IntoLines(content))

ContentPadToWidthAtRight(b, width) ==
    LET w == SaturatingSub(width, BlockWidth(b))
    IN  IF w > 0
        THEN ContentBlock([i \in 1..Len(b.lines) |-> Concatenate(b.lines[i], Repeat(Space, w))])
        ELSE b

ContentJoinTopToBottomAtLeft(top, bottom) ==
    LET width == Max(BlockWidth(top), BlockWidth(bottom))
    IN  ContentBlock(ContentPadToWidthAtRight(top, width).lines
                     \o ContentPadToWidthAtRight(bottom, width).lines)

ContentPadToHeightAtBottom(b, height) ==
    LET h == SaturatingSub(height, BlockHeight(b))
    IN  IF h > 0
        THEN LET padding == Unwrap(EmptyFillGrapheme(EmptyBlock(BlockWidth(b), h), SPACE))
             IN  IF padding.mode = "Panic" THEN Panic
                 ELSE ContentJoinTopToBottomAtLeft(b, padding)
        ELSE b

ContentJoinLeftToRightAtTop(left, right) ==
    LET height == Max(BlockHeight(left), BlockHeight(right))
        l == ContentPadToHeightAtBottom(left, height)
        r == ContentPadToHeightAtBottom(right, height)
    IN  IF l.mode = "Panic" \/ r.mode = "Panic" THEN Panic
        ELSE ContentBlock([i \in 1..Min(Len(l.lines), Len(r.lines)) |->
                              Concatenate(l.lines[i], r.lines[i])])

ContentOverlay(front, back) ==
    LET width == Max(BlockWidth(front), BlockWidth(back))
        height == Max(BlockHeight(front), BlockHeight(back))
        fh == ContentPadToHeightAtBottom(front, height)
        bh == ContentPadToHeightAtBottom(back, height)
    IN  IF fh.mode = "Panic" \/ bh.mode = "Panic" THEN Panic
        ELSE LET f == ContentPadToWidthAtRight(fh, width)
                 b == ContentPadToWidthAtRight(bh, width)
                 rows == 1..Min(Len(f.lines), Len(b.lines))
             IN  IF \E i \in rows : ~IsCongruent(f.lines[i], b.lines[i]) THEN Panic
                 ELSE ContentFrom([i \in rows |-> OverlayWith(f.lines[i], b.lines[i])])

(* --------------------------------------------------------- ModalBlock *)
ModalPadToWidthAtRight(b, width) ==
    IF b.mode = "Panic" THEN Panic
    ELSE IF b.mode = "Empty" THEN EmptyPadToWidthAtRight(b, width)
    ELSE ContentPadToWidthAtRight(b, width)

ModalPadToHeightAtBottom(b, height) ==
    IF b.mode = "Panic" THEN Panic
    ELSE IF b.mode = "Empty" THEN EmptyPadToHeightAtBottom(b, height)
    ELSE ContentPadToHeightAtBottom(b, height)

\* Mixed arms that always fill the Empty operand.
MixedJoinLeftToRightAlwaysFill(empty, content, emptyIsLeft) ==
    LET height == Max(empty.height, BlockHeight(content))
        e == Unwrap(EmptyFillGrapheme(EmptyPadToHeightAtBottom(empty, height), SPACE))
        c == ContentPadToHeightAtBottom(content, height)
    IN  IF e.mode = "Panic" \/ c.mode = "Panic" THEN Panic
        ELSE IF emptyIsLeft THEN ContentJoinLeftToRightAtTop(e, c)
        ELSE ContentJoinLeftToRightAtTop(c, e)

\* The mixed arms of join_left_to_right_at_top: `empty` is the Empty operand.
MixedJoinLeftToRight(empty, content, emptyIsLeft) ==
    IF empty.width = 0 THEN content
    ELSE LET height == Max(empty.height, BlockHeight(content))
             e == Unwrap(EmptyFillGrapheme(EmptyPadToHeightAtBottom(empty, height), SPACE))
             c == ContentPadToHeightAtBottom(content, height)
         IN  IF e.mode = "Panic" \/ c.mode = "Panic" THEN Panic
             ELSE IF emptyIsLeft THEN ContentJoinLeftToRightAtTop(e, c)
             ELSE ContentJoinLeftToRightAtTop(c, e)

ModalJoinLeftToRightAtTop(left, right) ==
    IF left.mode = "Panic" \/ right.mode = "Panic" THEN Panic
    ELSE IF left.mode = "Empty" /\ right.mode = "Empty" THEN EmptyJoinLeftToRightAtTop(left, right)
    ELSE IF left.mode = "Content" /\ right.mode = "Content"
         THEN ContentJoinLeftToRightAtTop(left, right)
    ELSE IF left.mode = "Empty" THEN MixedJoinLeftToRight(left, right, TRUE)
    ELSE MixedJoinLeftToRight(right, left, FALSE)

\* The mixed arms of join_top_to_bottom_at_left: `empty` is the Empty operand.
MixedJoinTopToBottom(empty, content, emptyIsTop) ==
    IF empty.height = 0 THEN content
    ELSE LET width == Max(empty.width, BlockWidth(content))
             e == Unwrap(EmptyFillGrapheme(EmptyPadToWidthAtRight(empty, width), SPACE))
             c == ContentPadToWidthAtRight(content, width)
         IN  IF e.mode = "Panic" \/ c.mode = "Panic" THEN Panic
             ELSE IF emptyIsTop THEN ContentJoinTopToBottomAtLeft(e, c)
             ELSE ContentJoinTopToBottomAtLeft(c, e)

ModalJoinTopToBottomAtLeft(top, bottom) ==
    IF top.mode = "Panic" \/ bottom.mode = "Panic" THEN Panic
    ELSE IF top.mode = "Empty" /\ bottom.mode = "Empty" THEN EmptyJoinTopToBottomAtLeft(top, bottom)
    ELSE IF top.mode = "Content" /\ bottom.mode = "Content"
         THEN ContentJoinTopToBottomAtLeft(top, bottom)
    ELSE IF top.mode = "Empty" THEN MixedJoinTopToBottom(top, bottom, TRUE)
    ELSE MixedJoinTopToBottom(bottom, top, FALSE)

\* The mixed arms of overlay: `empty` is the Empty operand.
MixedOverlay(empty, content, emptyIsFront) ==
    LET width == Max(empty.width, BlockWidth(content))
        height == Max(empty.height, BlockHeight(content))
        e == Unwrap(EmptyFillGrapheme(
                 EmptyPadToHeightAtBottom(EmptyPadToWidthAtRight(empty, width), height), SPACE))
        c == ContentPadToHeightAtBottom(ContentPadToWidthAtRight(content, width), height)
    IN  IF e.mode = "Panic" \/ c.mode = "Panic" THEN Panic
        ELSE IF emptyIsFront THEN ContentOverlay(e, c)
        ELSE ContentOverlay(c, e)

ModalOverlay(front, back) ==
    IF front.mode = "Panic" \/ back.mode = "Panic" THEN Panic
    ELSE IF front.mode = "Empty" /\ back.mode = "Empty" THEN EmptyOverlay(front, back)
    ELSE IF front.mode = "Content" /\ back.mode = "Content" THEN ContentOverlay(front, back)
    ELSE IF front.mode = "Empty" THEN MixedOverlay(front, back, TRUE)
    ELSE MixedOverlay(back, front, FALSE)

(* -------------------------------------------------------------- Block *)
WithDimensions(width, height) == EmptyBlock(width, height)

Zero == WithDimensions(0, 0)

WithContent(content) == ContentFrom(IntoLines(content))

\* impl Fill<C, Grapheme> for Block
FillGrapheme(b, glyph) ==
    IF b.mode = "Panic" THEN Panic
    ELSE EmptyFillGrapheme(EmptyBlock(BlockWidth(b), BlockHeight(b)), glyph)

\* impl Fill<C, C> for Block
FillContent(b, content) ==
    IF b.mode = "Panic" THEN Panic
    ELSE EmptyFillContent(EmptyBlock(BlockWidth(b), BlockHeight(b)), content)

Filled(width, height, glyph) == FillGrapheme(WithDimensions(width, height), glyph)

\* Block::into_content_or_fill followed by the unwrap_or_else of Block::push
IntoContentOrFill(b, glyph) ==
    LET r == IF b.mode = "Empty" THEN EmptyFillGrapheme(b, glyph) ELSE b
    IN  IF r.mode = "Empty" THEN ContentPadToWidthAtRight(ContentBlock(<<>>), r.width) ELSE r

Push(b, content) ==
    IF b.mode = "Panic" THEN Panic ELSE ContentPush(IntoContentOrFill(b, SPACE), content)

PadToWidthAtRight(b, width) == ModalPadToWidthAtRight(b, width)

PadToHeightAtBottom(b, height) == ModalPadToHeightAtBottom(b, height)

JoinLeftToRightAtTop(left, right) == ModalJoinLeftToRightAtTop(left, right)

JoinTopToBottomAtLeft(top, bottom) == ModalJoinTopToBottomAtLeft(top, bottom)

Overlay(front, back) == ModalOverlay(front, back)

PadAtLeft(b, width) ==
    IF b.mode = "Panic" THEN Panic
    ELSE JoinLeftToRightAtTop(Filled(width, BlockHeight(b), SPACE), b)

PadAtRight(b, width) ==
    IF b.mode = "Panic" THEN Panic
    ELSE JoinLeftToRightAtTop(b, Filled(width, BlockHeight(b), SPACE))

PadAtTop(b, height) ==
    IF b.mode = "Panic" THEN Panic
    ELSE JoinTopToBottomAtLeft(Filled(BlockWidth(b), height, SPACE), b)

PadAtBottom(b, height) ==
    IF b.mode = "Panic" THEN Panic
    ELSE JoinTopToBottomAtLeft(b, Filled(BlockWidth(b), height, SPACE))

PadToWidthAtLeft(b, width) ==
    IF b.mode = "Panic" THEN Panic
    ELSE PadAtLeft(b, SaturatingSub(width, BlockWidth(b)))

PadToHeightAtTop(b, height) ==
    IF b.mode = "Panic" THEN Panic
    ELSE PadAtTop(b, SaturatingSub(height, BlockHeight(b)))

JoinLeftToRightAtBottom(left, right) ==
    IF left.mode = "Panic" \/ right.mode = "Panic" THEN Panic
    ELSE LET height == Max(BlockHeight(left), BlockHeight(right))
         IN  JoinLeftToRightAtTop(PadToHeightAtTop(left, height), PadToHeightAtTop(right, height))

JoinTopToBottomAtRight(top, bottom) ==
    IF top.mode = "Panic" \/ bottom.mode = "Panic" THEN Panic
    ELSE LET width == Max(BlockWidth(top), BlockWidth(bottom))
         IN  JoinTopToBottomAtLeft(PadToWidthAtLeft(top, width), PadToWidthAtLeft(bottom, width))

(* ------------------------------------------------------ state machine *)
Glyphs == {"a", SPACE, WIDE}

\* Texts handed to with_content, fill and push, line breaks included.
StringInputs ==
    { <<>>, <<"a">>, <<WIDE>>, <<SPACE, "a">>, <<"a", "b", NL, "c">>, <<"a", NL, NL, "b">> }

StyledInputs ==
    { <<>>,
      << <<"red", <<"a">> >> >>,
      << <<"red", <<WIDE>> >> >>,
      << <<"red", <<SPACE>> >>, <<"blue", <<"a">> >> >>,
      << <<"red", <<"a">> >>, <<"blue", <<"b", "c">> >> >>,
      << <<"red", <<"a", "b", NL, "c">> >> >>,
      << <<"red", <<"a", NL>> >>, <<"blue", <<NL, "b">> >> >> }

Inputs == IF C = "String" THEN StringInputs ELSE StyledInputs

Constructed ==
    {WithContent(c) : c \in Inputs} \cup {WithDimensions(w, h) : w \in 0..MaxDim, h \in 0..MaxDim}

Fits(b) ==
    IF b.mode = "Panic" THEN TRUE ELSE BlockWidth(b) <= MaxWidth /\ BlockHeight(b) <= MaxHeight

Call(op, other, n, glyph, content) ==
    [op |-> op, self |-> blk, other |-> other, n |-> n, glyph |-> glyph, content |-> content]

\* The call returned (or panicked with) `result`.
Return(result, call) ==
    /\ blk.mode # "Panic"
    /\ steps < MaxSteps
    /\ Fits(result)
    /\ blk' = result
    /\ last' = call
    /\ steps' = steps + 1
    /\ UNCHANGED <<C, checked>>

Init ==
    /\ C \in {"String", "Styled"}
    \* no arithmetic of the String code can overflow: one profile is enough
    /\ checked \in (IF C = "String" THEN {TRUE} ELSE BOOLEAN)
    /\ steps = 0
    /\ blk \in Constructed
    /\ last = [op |-> "new", self |-> Zero, other |-> Zero, n |-> 0, glyph |-> SPACE,
               content |-> <<>>]

DoPush == \E c \in Inputs : Return(Push(blk, c), Call("push", Zero, 0, SPACE, c))

DoFillGrapheme ==
    \E g \in Glyphs : Return(FillGrapheme(blk, g), Call("fill_grapheme", Zero, 0, g, <<>>))

DoFillContent ==
    \E c \in Inputs : Return(FillContent(blk, c), Call("fill_content", Zero, 0, SPACE, c))

DoPadToWidthAtRight ==
    \E n \in 0..MaxPad :
        Return(PadToWidthAtRight(blk, n), Call("pad_to_width_at_right", Zero, n, SPACE, <<>>))

DoPadToWidthAtLeft ==
    \E n \in 0..MaxPad :
        Return(PadToWidthAtLeft(blk, n), Call("pad_to_width_at_left", Zero, n, SPACE, <<>>))

DoPadToHeightAtBottom ==
    \E n \in 0..MaxPad :
        Return(PadToHeightAtBottom(blk, n), Call("pad_to_height_at_bottom", Zero, n, SPACE, <<>>))

DoPadToHeightAtTop ==
    \E n \in 0..MaxPad :
        Return(PadToHeightAtTop(blk, n), Call("pad_to_height_at_top", Zero, n, SPACE, <<>>))

DoPadAtLeft ==
    \E n \in 0..MaxPad : Return(PadAtLeft(blk, n), Call("pad_at_left", Zero, n, SPACE, <<>>))

DoPadAtRight ==
    \E n \in 0..MaxPad : Return(PadAtRight(blk, n), Call("pad_at_right", Zero, n, SPACE, <<>>))

DoPadAtTop ==
    \E n \in 0..MaxPad : Return(PadAtTop(blk, n), Call("pad_at_top", Zero, n, SPACE, <<>>))

DoPadAtBottom ==
    \E n \in 0..MaxPad : Return(PadAtBottom(blk, n), Call("pad_at_bottom", Zero, n, SPACE, <<>>))

DoJoinLeftToRightAtTop ==
    \E o \in Constructed :
        Return(JoinLeftToRightAtTop(blk, o), Call("join_left_to_right_at_top", o, 0, SPACE, <<>>))

DoJoinLeftToRightAtBottom ==
    \E o \in Constructed :
        Return(JoinLeftToRightAtBottom(blk, o),
               Call("join_left_to_right_at_bottom", o, 0, SPACE, <<>>))

DoJoinTopToBottomAtLeft ==
    \E o \in Constructed :
        Return(JoinTopToBottomAtLeft(blk, o), Call("join_top_to_bottom_at_left", o, 0, SPACE, <<>>))

DoJoinTopToBottomAtRight ==
    \E o \in Constructed :
        Return(JoinTopToBottomAtRight(blk, o),
               Call("join_top_to_bottom_at_right", o, 0, SPACE, <<>>))

DoOverlay ==
    \E o \in Constructed : Return(Overlay(blk, o), Call("overlay", o, 0, SPACE, <<>>))

Next ==
    \/ DoPush
    \/ DoFillGrapheme
    \/ DoFillContent
    \/ DoPadToWidthAtRight
    \/ DoPadToWidthAtLeft
    \/ DoPadToHeightAtBottom
    \/ DoPadToHeightAtTop
    \/ DoPadAtLeft
    \/ DoPadAtRight
    \/ DoPadAtTop
    \/ DoPadAtBottom
    \/ DoJoinLeftToRightAtTop
    \/ DoJoinLeftToRightAtBottom
    \/ DoJoinTopToBottomAtLeft
    \/ DoJoinTopToBottomAtRight
    \/ DoOverlay

Spec == Init /\ [][Next]_vars

(* ------------------------------------------------------------ render *)
\* Style::apply: the default style is the identity, any other style wraps
\* the text in an opening and a closing sequence.
StyleApply(style, text) ==
    IF style = DefaultStyle THEN text ELSE <<style>> \o text \o <<"reset">>

\* Render for String and for Styled
RenderContent(c) ==
    IF C = "String" THEN c ELSE Flatten([i \in 1..Len(c) |-> StyleApply(c[i][1], c[i][2])])

IsWhitespace(g) == g \in {SPACE, NL}

\* str::trim_end
RECURSIVE TrimEnd(_)
TrimEnd(t) ==
    IF t = <<>> THEN <<>>
    ELSE IF IsWhitespace(t[Len(t)]) THEN TrimEnd(SubSeq(t, 1, Len(t) - 1))
    ELSE t

\* A render that trims nothing.
RenderUntrimmed(b) ==
    IF b.mode = "Empty" THEN <<>>
    ELSE Flatten([i \in 1..Len(b.lines) |-> RenderContent(b.lines[i]) \o <<NL>>])

\* impl Render for Block
Render(b) ==
    IF b.mode = "Empty" THEN <<>>
    ELSE Flatten([i \in 1..Len(b.lines) |-> TrimEnd(RenderContent(b.lines[i])) \o <<NL>>])

\* The blocks that get rendered: constructed ones and the results of one
\* operation on them.
Operated ==
    {JoinLeftToRightAtTop(a, b) : a \in Constructed, b \in Constructed}
        \cup {JoinTopToBottomAtLeft(a, b) : a \in Constructed, b \in Constructed}
        \cup {PadToWidthAtRight(a, n) : a \in Constructed, n \in 0..MaxPad}
        \cup {PadToHeightAtBottom(a, n) : a \in Constructed, n \in 0..MaxPad}
        \cup {FillGrapheme(a, g) : a \in Constructed, g \in Glyphs}

RenderInit ==
    /\ C \in {"String", "Styled"}
    /\ checked \in (IF C = "String" THEN {TRUE} ELSE BOOLEAN)
    /\ steps = 0
    /\ blk \in {b \in Constructed \cup Operated : b.mode # "Panic"}
    /\ last = [op |-> "new", self |-> Zero, other |-> Zero, n |-> 0, glyph |-> SPACE,
               content |-> <<>>]

\* render(&self): the block stays, last.content is the text returned.
DoRender ==
    /\ last' = Call("render", Zero, 0, SPACE, Render(blk))
    /\ UNCHANGED <<C, checked, blk, steps>>

RenderNext == DoRender

RenderSpec == RenderInit /\ [][RenderNext]_vars

(* ------------------------------- the content model called directly *)
\* Content values handed to the methods of Content: the texts above and
\* single lines with double-width graphemes, empty runs and equal styles.
StringRows ==
    { <<SPACE, WIDE>>, <<WIDE, "a">>, <<"a", SPACE, "b">>, <<"a", "b">>, <<"a", WIDE, "b">> }

StyledRows ==
    { << <<"red", <<"a">> >>, <<"blue", <<>> >>, <<"red", <<"b">> >> >>,
      << <<"red", <<"a">> >>, <<"red", <<"b">> >> >>,
      << <<"red", <<SPACE>> >>, <<"blue", <<WIDE>> >> >>,
      << <<"blue", <<WIDE>> >>, <<"red", <<"a">> >> >>,
      << <<"red", <<"a", "b">> >>, <<"blue", <<"c">> >>, <<"red", <<"d">> >> >>,
      << <<"red", <<"a", SPACE>> >> >>,
      << <<"red", <<SPACE, "b">> >> >> }

ContentInputs == IF C = "String" THEN StringInputs \cup StringRows
                 ELSE StyledInputs \cup StyledRows

ContentCall(op, self, other, n, f, result, panicked) ==
    [op |-> op, self |-> self, other |-> other, n |-> n, f |-> f,
     result |-> result, panicked |-> panicked]

ContentReturn(call) ==
    /\ last' = call
    /\ UNCHANGED <<C, checked, blk, steps>>

ContentInit ==
    /\ C \in {"String", "Styled"}
    /\ checked \in (IF C = "String" THEN {TRUE} ELSE BOOLEAN)
    /\ steps = 0
    /\ blk = Zero
    /\ last = ContentCall("new", <<>>, <<>>, 0, "default", <<>>, FALSE)

CallTruncate ==
    \E c \in ContentInputs, n \in 0..MaxWidth :
        ContentReturn(IF TruncatePanics(c, n)
                      THEN ContentCall("truncate", c, <<>>, n, "default", <<>>, TRUE)
                      ELSE ContentCall("truncate", c, <<>>, n, "default", Truncate(c, n), FALSE))

\* Congruent::try_from((front, back)) succeeded, then overlay_with.
CallOverlayWith ==
    \E front \in ContentInputs, back \in ContentInputs, f \in Decisions :
        /\ IsCongruent(front, back)
        /\ ContentReturn(ContentCall("overlay_with", front, back, 0, f,
                                     OverlayWithDecision(front, back, f), FALSE))

CallIntoLines ==
    \E c \in ContentInputs :
        ContentReturn(ContentCall("into_lines", c, <<>>, 0, "default", IntoLines(c), FALSE))

ContentNext ==
    \/ CallTruncate
    \/ CallOverlayWith
    \/ CallIntoLines

ContentSpec == ContentInit /\ [][ContentNext]_vars

(* ------------------------------------------------------- alignment *)
\* valued::Alignment: LEFT is Alignment::Horizontal(HorizontalAlignment::Left).
ValuedAlignment ==
    [LEFT |-> <<"Horizontal", "Left">>, RIGHT |-> <<"Horizontal", "Right">>,
     TOP |-> <<"Vertical", "Top">>, BOTTOM |-> <<"Vertical", "Bottom">>]

\* valued::Axis::origin
AxisOrigin(axis) ==
    IF axis = "LeftRight" THEN ValuedAlignment.LEFT ELSE ValuedAlignment.TOP

\* An opposite that leaves LEFT where it is.
AlignmentOppositeLeftFixed(alignment) ==
    IF alignment = ValuedAlignment.LEFT THEN ValuedAlignment.LEFT
    ELSE IF alignment = ValuedAlignment.RIGHT THEN ValuedAlignment.LEFT
    ELSE IF alignment = ValuedAlignment.TOP THEN ValuedAlignment.BOTTOM
    ELSE ValuedAlignment.TOP

\* valued::Alignment::opposite
AlignmentOpposite(alignment) ==
    IF alignment = ValuedAlignment.LEFT THEN ValuedAlignment.RIGHT
    ELSE IF alignment = ValuedAlignment.RIGHT THEN ValuedAlignment.LEFT
    ELSE IF alignment = ValuedAlignment.TOP THEN ValuedAlignment.BOTTOM
    ELSE ValuedAlignment.TOP

\* valued::Alignment::axis
AlignmentAxis(alignment) ==
    IF alignment \in {ValuedAlignment.LEFT, ValuedAlignment.RIGHT} THEN "LeftRight"
    ELSE "TopBottom"

\* valued::HorizontalAlignment::opposite
HorizontalOpposite(horizontal) == IF horizontal = "Left" THEN "Right" ELSE "Left"

\* valued::VerticalAlignment::opposite
VerticalOpposite(vertical) == IF vertical = "Top" THEN "Bottom" ELSE "Top"

\* typed::Axis, implemented by the markers LeftRight and TopBottom
TypedAxis ==
    [LeftRight |-> [Orthogonal |-> "TopBottom", Origin |-> "Left", VALUE |-> "LeftRight"],
     TopBottom |-> [Orthogonal |-> "LeftRight", Origin |-> "Top", VALUE |-> "TopBottom"]]

\* typed::Alignment, implemented by the markers Left, Right, Top and Bottom
TypedAlignment ==
    [Left |-> [Opposite |-> "Right", Axis |-> "LeftRight", VALUE |-> ValuedAlignment.LEFT],
     Right |-> [Opposite |-> "Left", Axis |-> "LeftRight", VALUE |-> ValuedAlignment.RIGHT],
     Top |-> [Opposite |-> "Bottom", Axis |-> "TopBottom", VALUE |-> ValuedAlignment.TOP],
     Bottom |-> [Opposite |-> "Top", Axis |-> "TopBottom", VALUE |-> ValuedAlignment.BOTTOM]]

\* A Horizontal::aligned that returns the left field for both directions.
HorizontalAlignedLeftOnly(data, alignment) ==
    IF alignment = "Left" THEN data.left ELSE data.left

\* Horizontal::aligned
HorizontalAligned(data, alignment) ==
    IF alignment = "Left" THEN data.left ELSE data.right

\* Vertical::aligned
VerticalAligned(data, alignment) ==
    IF alignment = "Top" THEN data.top ELSE data.bottom

\* Square::aligned
SquareAligned(data, alignment) ==
    IF alignment = ValuedAlignment.LEFT THEN data.left
    ELSE IF alignment = ValuedAlignment.RIGHT THEN data.right
    ELSE IF alignment = ValuedAlignment.TOP THEN data.top
    ELSE data.bottom

\* Quadrant::aligned
QuadrantAligned(data, vertical, horizontal) ==
    IF vertical = "Top" THEN HorizontalAligned(data.top, horizontal)
    ELSE HorizontalAligned(data.bottom, horizontal)

\* impl HorizontalDecoder for Left and for Right, over left() and right()
HorizontalDecoder(H, data) == IF H = "Left" THEN data.left ELSE data.right

\* impl VerticalDecoder for Top and for Bottom, over top() and bottom()
VerticalDecoder(V, data) == IF V = "Top" THEN data.top ELSE data.bottom

\* impl AxialDecoder for LeftRight and for TopBottom
AxialDecoder(A, data) == IF A = "LeftRight" THEN data.horizontal ELSE data.vertical

Items == 1..MaxItem

\* The aggregates: Horizontal, Vertical, Square, Quadrant and Axial.
Aggregates ==
    [Horizontal |-> [left : Items, right : Items],
     Vertical |-> [top : Items, bottom : Items],
     Square |-> [left : Items, right : Items, top : Items, bottom : Items],
     Quadrant |-> [top : [left : Items, right : Items], bottom : [left : Items, right : Items]],
     Axial |-> [horizontal : Items, vertical : Items]]

AlignCall(op, data, at, result) ==
    /\ last' = [op |-> op, data |-> data, at |-> at, result |-> result]
    /\ UNCHANGED <<C, checked, blk, steps>>

AlignInit ==
    /\ C = "String"
    /\ checked = TRUE
    /\ steps = 0
    /\ blk = Zero
    /\ last = [op |-> "new", data |-> 0, at |-> 0, result |-> 0]

CallAlignmentOpposite ==
    \E l \in {ValuedAlignment[k] : k \in DOMAIN ValuedAlignment} :
        AlignCall("Alignment::opposite", 0, l, AlignmentOpposite(l))

CallAlignmentAxis ==
    \E l \in {ValuedAlignment[k] : k \in DOMAIN ValuedAlignment} :
        AlignCall("Alignment::axis", 0, l, AlignmentAxis(l))

CallSideOpposite ==
    \/ \E h \in {"Left", "Right"} :
           AlignCall("HorizontalAlignment::opposite", 0, h, HorizontalOpposite(h))
    \/ \E v \in {"Top", "Bottom"} :
           AlignCall("VerticalAlignment::opposite", 0, v, VerticalOpposite(v))

CallAxisOrigin ==
    \E a \in {"LeftRight", "TopBottom"} : AlignCall("Axis::origin", 0, a, AxisOrigin(a))

CallHorizontalAligned ==
    \E data \in Aggregates.Horizontal, h \in {"Left", "Right"} :
        AlignCall("Horizontal::aligned", data, h, HorizontalAligned(data, h))

CallVerticalAligned ==
    \E data \in Aggregates.Vertical, v \in {"Top", "Bottom"} :
        AlignCall("Vertical::aligned", data, v, VerticalAligned(data, v))

CallSquareAligned ==
    \E data \in Aggregates.Square, l \in {ValuedAlignment[k] : k \in DOMAIN ValuedAlignment} :
        AlignCall("Square::aligned", data, l, SquareAligned(data, l))

CallQuadrantAligned ==
    \E data \in Aggregates.Quadrant, v \in {"Top", "Bottom"}, h \in {"Left", "Right"} :
        AlignCall("Quadrant::aligned", data, <<v, h>>, QuadrantAligned(data, v, h))

\* HorizontalEnvelope::horizontally_aligned_at::<H>, on Horizontal and Square
CallHorizontallyAlignedAt ==
    \E data \in Aggregates.Horizontal \cup Aggregates.Square, H \in {"Left", "Right"} :
        AlignCall("horizontally_aligned_at", data, H, HorizontalDecoder(H, data))

\* VerticalEnvelope::vertically_aligned_at::<V>, on Vertical and Square
CallVerticallyAlignedAt ==
    \E data \in Aggregates.Vertical \cup Aggregates.Square, V \in {"Top", "Bottom"} :
        AlignCall("vertically_aligned_at", data, V, VerticalDecoder(V, data))

\* AxialEnvelope::axially_aligned_at::<A>, on Axial
CallAxiallyAlignedAt ==
    \E data \in Aggregates.Axial, A \in {"LeftRight", "TopBottom"} :
        AlignCall("axially_aligned_at", data, A, AxialDecoder(A, data))

AlignNext ==
    \/ CallAlignmentOpposite
    \/ CallAlignmentAxis
    \/ CallSideOpposite
    \/ CallAxisOrigin
    \/ CallHorizontalAligned
    \/ CallVerticalAligned
    \/ CallSquareAligned
    \/ CallQuadrantAligned
    \/ CallHorizontallyAlignedAt
    \/ CallVerticallyAlignedAt
    \/ CallAxiallyAlignedAt

AlignSpec == AlignInit /\ [][AlignNext]_vars

(* ---------------------------------------------------- AlignedBlock *)
\* impl From<Block<C>> for AlignedBlock<C, V, H>: V and H are the markers.
AlignedBlock(block, V, H) == [block |-> block, V |-> V, H |-> H]

HorizontalMethods ==
    {"pad_horizontal", "pad_horizontal_opposite", "pad_to_width", "pad_to_width_opposite",
     "join_top_to_bottom", "join_top_to_bottom_opposite"}

VerticalMethods ==
    {"pad_vertical", "pad_vertical_opposite", "pad_to_height", "pad_to_height_opposite",
     "join_left_to_right", "join_left_to_right_opposite"}

IsJoinMethod(method) ==
    method \in {"join_top_to_bottom", "join_top_to_bottom_opposite",
                "join_left_to_right", "join_left_to_right_opposite"}

\* A Right-bound block whose pad_horizontal pads at the left.
HorizontalBlockRightAsLeft(method, H, block, width, bottom) ==
    IF H = "Left"
    THEN CASE method = "pad_horizontal" -> PadAtLeft(block, width)
           [] method = "pad_horizontal_opposite" -> PadAtRight(block, width)
           [] method = "pad_to_width" -> PadToWidthAtLeft(block, width)
           [] method = "pad_to_width_opposite" -> PadToWidthAtRight(block, width)
           [] method = "join_top_to_bottom" -> JoinTopToBottomAtLeft(block, bottom)
           [] method = "join_top_to_bottom_opposite" -> JoinTopToBottomAtRight(block, bottom)
    ELSE CASE method = "pad_horizontal" -> PadAtLeft(block, width)
           [] method = "pad_horizontal_opposite" -> PadAtLeft(block, width)
           [] method = "pad_to_width" -> PadToWidthAtRight(block, width)
           [] method = "pad_to_width_opposite" -> PadToWidthAtLeft(block, width)
           [] method = "join_top_to_bottom" -> JoinTopToBottomAtRight(block, bottom)
           [] method = "join_top_to_bottom_opposite" -> JoinTopToBottomAtLeft(block, bottom)

\* impl HorizontalBlock for AlignedBlock<C, V, Left> and <C, V, Right>: the
\* block that `unaligned` stores.
HorizontalBlock(method, H, block, width, bottom) ==
    IF H = "Left"
    THEN CASE method = "pad_horizontal" -> PadAtLeft(block, width)
           [] method = "pad_horizontal_opposite" -> PadAtRight(block, width)
           [] method = "pad_to_width" -> PadToWidthAtLeft(block, width)
           [] method = "pad_to_width_opposite" -> PadToWidthAtRight(block, width)
           [] method = "join_top_to_bottom" -> JoinTopToBottomAtLeft(block, bottom)
           [] method = "join_top_to_bottom_opposite" -> JoinTopToBottomAtRight(block, bottom)
    ELSE CASE method = "pad_horizontal" -> PadAtRight(block, width)
           [] method = "pad_horizontal_opposite" -> PadAtLeft(block, width)
           [] method = "pad_to_width" -> PadToWidthAtRight(block, width)
           [] method = "pad_to_width_opposite" -> PadToWidthAtLeft(block, width)
           [] method = "join_top_to_bottom" -> JoinTopToBottomAtRight(block, bottom)
           [] method = "join_top_to_bottom_opposite" -> JoinTopToBottomAtLeft(block, bottom)

\* impl VerticalBlock for AlignedBlock<C, Bottom, H> and <C, Top, H>
VerticalBlock(method, V, block, height, right) ==
    IF V = "Bottom"
    THEN CASE method = "pad_vertical" -> PadAtBottom(block, height)
           [] method = "pad_vertical_opposite" -> PadAtTop(block, height)
           [] method = "pad_to_height" -> PadToHeightAtBottom(block, height)
           [] method = "pad_to_height_opposite" -> PadToHeightAtTop(block, height)
           [] method = "join_left_to_right" -> JoinLeftToRightAtBottom(block, right)
           [] method = "join_left_to_right_opposite" -> JoinLeftToRightAtTop(block, right)
    ELSE CASE method = "pad_vertical" -> PadAtTop(block, height)
           [] method = "pad_vertical_opposite" -> PadAtBottom(block, height)
           [] method = "pad_to_height" -> PadToHeightAtTop(block, height)
           [] method = "pad_to_height_opposite" -> PadToHeightAtBottom(block, height)
           [] method = "join_left_to_right" -> JoinLeftToRightAtTop(block, right)
           [] method = "join_left_to_right_opposite" -> JoinLeftToRightAtBottom(block, right)

AlignedInit ==
    /\ C \in {"String", "Styled"}
    /\ checked \in (IF C = "String" THEN {TRUE} ELSE BOOLEAN)
    /\ steps = 0
    /\ blk \in {AlignedBlock(b, V, H) :
                    b \in Constructed, V \in {"Top", "Bottom"}, H \in {"Left", "Right"}}
    /\ last = [op |-> "new", self |-> AlignedBlock(Zero, "Top", "Left"), n |-> 0, other |-> Zero]

\* A method takes the receiver by value: one call is made on it, and the
\* block it returns takes its place.
AlignedReturn(method, n, other, result) ==
    /\ last.op = "new"
    /\ Fits(result)
    /\ blk' = [blk EXCEPT !.block = result]
    /\ last' = [op |-> method, self |-> blk, n |-> n, other |-> other]
    /\ UNCHANGED <<C, checked, steps>>

\* The argument of a pad is a length, that of a join the other block.
AlignedArguments(method) ==
    IF IsJoinMethod(method)
    THEN {<<0, o>> : o \in Constructed}
    ELSE {<<n, Zero>> : n \in 0..MaxPad}

DoHorizontalBlock ==
    \E method \in HorizontalMethods :
        \E a \in AlignedArguments(method) :
            AlignedReturn(method, a[1], a[2],
                          HorizontalBlock(method, blk.H, blk.block, a[1], a[2]))

DoVerticalBlock ==
    \E method \in VerticalMethods :
        \E a \in AlignedArguments(method) :
            AlignedReturn(method, a[1], a[2],
                          VerticalBlock(method, blk.V, blk.block, a[1], a[2]))

AlignedNext ==
    \/ DoHorizontalBlock
    \/ DoVerticalBlock

AlignedSpec == AlignedInit /\ [][AlignedNext]_vars

(* ------------------------------------------------------------- claims *)
\* The graphemes of a content value, styles dropped.
Text(c) == IF C = "String" THEN c ELSE Flatten([i \in 1..Len(c) |-> c[i][2]])

Rectangular(b) ==
    /\ Len(b.lines) = BlockHeight(b)
    /\ \A i \in 1..Len(b.lines) : Width(b.lines[i]) = BlockWidth(b)

PadToOps ==
    {"pad_to_width_at_right", "pad_to_width_at_left",
     "pad_to_height_at_bottom", "pad_to_height_at_top"}

PadAtOps == {"pad_at_left", "pad_at_right", "pad_at_top", "pad_at_bottom"}

JoinOps ==
    {"join_left_to_right_at_top", "join_left_to_right_at_bottom",
     "join_top_to_bottom_at_left", "join_top_to_bottom_at_right"}

FillOps == {"fill_grapheme", "fill_content"}

BinaryOps == JoinOps \cup {"overlay"}

\* The pad_to_* operation named `op`.
ApplyPadTo(op, b, n) ==
    IF op = "pad_to_width_at_right" THEN PadToWidthAtRight(b, n)
    ELSE IF op = "pad_to_width_at_left" THEN PadToWidthAtLeft(b, n)
    ELSE IF op = "pad_to_height_at_bottom" THEN PadToHeightAtBottom(b, n)
    ELSE PadToHeightAtTop(b, n)

\* The length of `b` along the axis the pad_to_* operation `op` grows.
PadToLength(op, b) ==
    IF op \in {"pad_to_width_at_right", "pad_to_width_at_left"}
    THEN BlockWidth(b) ELSE BlockHeight(b)

\* C1: every Content block a sequence of operations yields is a rectangle:
\* each row is as wide as the block reports, and there are height() rows.
C1_Rectangularity == blk.mode = "Content" => Rectangular(blk)

\* A styled block of two rows, one of several runs and one with a
\* double-width grapheme, that an operation produced.
C1_Witness ==
    /\ last.op # "new"
    /\ C = "Styled"
    /\ blk.mode = "Content"
    /\ Len(blk.lines) >= 2
    /\ \E i \in 1..Len(blk.lines) : Len(blk.lines[i]) >= 2
    /\ \E i \in 1..Len(blk.lines) : \E k \in 1..Len(Text(blk.lines[i])) :
           Text(blk.lines[i])[k] = WIDE

\* C2: a block derived from a Content block by fill, pad, join, overlay or
\* push is a Content block, zero-row Content blocks included.
C2_ContentNeverReverts ==
    (last.op # "new" /\ last.self.mode = "Content" /\ blk.mode # "Panic")
        => blk.mode = "Content"

\* C3: join_left_to_right_at_top returns a block whose width is the sum of
\* the operands' widths and whose height is the larger of their heights,
\* and join_top_to_bottom_at_left one whose height is the sum and whose
\* width is the larger, in every combination of modes.
C3_JoinDimensions ==
    /\ last.op = "join_left_to_right_at_top"
           => /\ blk.mode # "Panic"
              /\ BlockWidth(blk) = BlockWidth(last.self) + BlockWidth(last.other)
              /\ BlockHeight(blk) = Max(BlockHeight(last.self), BlockHeight(last.other))
    /\ last.op = "join_top_to_bottom_at_left"
           => /\ blk.mode # "Panic"
              /\ BlockHeight(blk) = BlockHeight(last.self) + BlockHeight(last.other)
              /\ BlockWidth(blk) = Max(BlockWidth(last.self), BlockWidth(last.other))

\* C4: filling an Empty block of height 0 with a grapheme or with content
\* returns the same Empty block and does not panic.
C4_DegenerateFill ==
    (last.op \in FillOps /\ last.self.mode = "Empty" /\ last.self.height = 0)
        => blk = EmptyBlock(last.self.width, 0)

\* An Empty block of width 1 and height 0 was filled with empty text.
C4_Witness ==
    /\ last.op = "fill_content"
    /\ last.self = EmptyBlock(1, 0)
    /\ last.content = <<>>

\* C5: filling a block of width w and height h > 0 with content returns a
\* Content block of h rows, each exactly w wide, without panicking.
C5_FillExactDimensions ==
    (last.op = "fill_content" /\ BlockHeight(last.self) > 0)
        => /\ blk.mode = "Content"
           /\ BlockHeight(blk) = BlockHeight(last.self)
           /\ \A i \in 1..Len(blk.lines) : Width(blk.lines[i]) = BlockWidth(last.self)

\* C6: a pad_to_* operation returns a block, and applying it again with the
\* same length returns an equal block.
C6_PadIdempotent ==
    last.op \in PadToOps
        => /\ blk.mode # "Panic"
           /\ ApplyPadTo(last.op, blk, last.n) = blk

\* C7: a pad_to_* operation to a length not above the current one returns
\* a block equal to its operand.
C7_PadToShorterIsNoOp ==
    (last.op \in PadToOps /\ last.n <= PadToLength(last.op, last.self))
        => blk = last.self

\* C8: a pad, join or overlay whose operands are all Empty returns an
\* Empty block.
C8_EmptyStaysEmpty ==
    /\ (last.op \in PadToOps \cup PadAtOps /\ last.self.mode = "Empty")
           => blk.mode = "Empty"
    /\ (last.op \in BinaryOps /\ last.self.mode = "Empty" /\ last.other.mode = "Empty")
           => blk.mode = "Empty"

C10_PadAndJoinTotal ==
    last.op \in PadToOps \cup PadAtOps \cup JoinOps => blk.mode # "Panic"

\* C11: overlay of any two blocks, in any combination of modes, returns a
\* block whose width is the larger of the operands' widths and whose height
\* is the larger of their heights.
C11_OverlayNeverShrinks ==
    last.op = "overlay"
        => /\ blk.mode # "Panic"
           /\ BlockWidth(blk) = Max(BlockWidth(last.self), BlockWidth(last.other))
           /\ BlockHeight(blk) = Max(BlockHeight(last.self), BlockHeight(last.other))

\* The columns of a text: one cell <<grapheme, offset>> per column, so a
\* double-width grapheme spans two cells.
RECURSIVE Cells(_)
Cells(t) ==
    IF t = <<>> THEN <<>>
    ELSE [k \in 1..GlyphWidth(Head(t)) |-> <<Head(t), k - 1>>] \o Cells(Tail(t))

\* The cell at (row, column) of a block: a space outside the rows of a
\* Content block and everywhere in an Empty block.
CellAt(b, row, column) ==
    IF b.mode = "Content" /\ row >= 1 /\ row <= Len(b.lines) /\ column >= 1
           /\ column <= Len(Cells(Text(b.lines[row])))
    THEN Cells(Text(b.lines[row]))[column]
    ELSE <<SPACE, 0>>

\* C12: overlay of two Content blocks returns a Content block of the union
\* size whose cell at every (row, column) is the front operand's when that
\* is not a space and the back operand's when it is, both operands padded
\* with spaces to the union size.
C12_DefaultOverlayRule ==
    (last.op = "overlay" /\ last.self.mode = "Content" /\ last.other.mode = "Content")
        => LET width == Max(BlockWidth(last.self), BlockWidth(last.other))
               height == Max(BlockHeight(last.self), BlockHeight(last.other))
           IN  /\ blk.mode = "Content"
               /\ Len(blk.lines) = height
               /\ \A i \in 1..Len(blk.lines) :
                      /\ Len(Cells(Text(blk.lines[i]))) = width
                      /\ \A k \in 1..width :
                             CellAt(blk, i, k) =
                                 IF CellAt(last.self, i, k)[1] # SPACE
                                 THEN CellAt(last.self, i, k)
                                 ELSE CellAt(last.other, i, k)

\* The graphemes of a content value, each with the style of its run.
StyledGlyphs(c) ==
    IF C = "String" THEN [i \in 1..Len(c) |-> <<DefaultStyle, c[i]>>]
    ELSE Flatten([i \in 1..Len(c) |-> [k \in 1..Len(c[i][2]) |-> <<c[i][1], c[i][2][k]>>]])

\* C13: overlay_with of a content value on itself under the decision that
\* always picks Front returns the same graphemes with the same styles (for
\* plain text, the same value), of the same width.
C13_OverlayIdentity ==
    (last.op = "overlay_with" /\ last.f = "front" /\ last.other = last.self)
        => /\ ~last.panicked
           /\ StyledGlyphs(last.result) = StyledGlyphs(last.self)
           /\ Width(last.result) = Width(last.self)
           /\ C = "String" => last.result = last.self

\* A styled value of three runs in two styles was overlaid on itself.
C13_Witness ==
    /\ last.op = "overlay_with"
    /\ last.f = "front"
    /\ last.other = last.self
    /\ C = "Styled"
    /\ Len(last.self) = 3
    /\ last.self[1][1] # last.self[2][1]
    /\ Len(last.result) = 3

\* C14: truncate(width) of plain text returns a prefix of whole graphemes
\* that is at most `width` columns wide, and the longest such prefix,
\* double-width graphemes included.
C14_PlainTruncate ==
    (last.op = "truncate" /\ C = "String")
        => /\ ~last.panicked
           /\ Len(last.result) <= Len(last.self)
           /\ last.result = SubSeq(last.self, 1, Len(last.result))
           /\ StrWidth(last.result) <= last.n
           /\ \/ Len(last.result) = Len(last.self)
              \/ StrWidth(SubSeq(last.self, 1, Len(last.result) + 1)) > last.n

\* C15: an Empty block renders as the empty text whatever its dimensions;
\* a Content block renders as height() lines, each ended by one line break,
\* the i-th being the rendering of row i without its trailing whitespace.
C15_Rendering ==
    last.op = "render"
        => /\ blk.mode = "Empty" => last.content = <<>>
           /\ blk.mode = "Content"
                  => LET out == last.content
                         outLines == StrLines(out)
                     IN  /\ out = <<>> \/ out[Len(out)] = NL
                         /\ Len(SelectSeq(out, LAMBDA g : g = NL)) = BlockHeight(blk)
                         /\ Len(outLines) = BlockHeight(blk)
                         /\ \A i \in 1..Len(outLines) :
                                LET row == RenderContent(blk.lines[i])
                                    line == outLines[i]
                                IN  /\ Len(line) <= Len(row)
                                    /\ line = SubSeq(row, 1, Len(line))
                                    /\ \A k \in (Len(line) + 1)..Len(row) : IsWhitespace(row[k])
                                    /\ line = <<>> \/ ~IsWhitespace(line[Len(line)])

\* A styled block of two rows was rendered, one row ending in padding.
C15_Witness ==
    /\ last.op = "render"
    /\ C = "Styled"
    /\ blk.mode = "Content"
    /\ Len(blk.lines) = 2
    /\ \E i \in 1..2 : /\ Len(blk.lines[i]) >= 2
                       /\ blk.lines[i][1][1] # DefaultStyle
                       /\ blk.lines[i][Len(blk.lines[i])] = <<DefaultStyle, <<SPACE>> >>

\* The markers whose VALUE is the valued alignment (axis) `v`.
AlignmentMarkers(v) == {L \in DOMAIN TypedAlignment : TypedAlignment[L].VALUE = v}

AxisMarkers(v) == {A \in DOMAIN TypedAxis : TypedAxis[A].VALUE = v}

\* C16: opposite is an involution without fixed point that stays on the
\* axis; the origin of an axis lies on that axis and Orthogonal is an
\* involution; the markers' Opposite, Axis, Orthogonal, Origin and VALUE
\* agree with the valued opposite(), axis() and origin().
C16_AlignmentClassification ==
    /\ last.op = "Alignment::opposite"
           => /\ AlignmentOpposite(last.result) = last.at
              /\ last.result # last.at
              /\ AlignmentAxis(last.result) = AlignmentAxis(last.at)
              /\ AlignmentMarkers(last.at) # {}
              /\ \A L \in AlignmentMarkers(last.at) :
                     /\ TypedAlignment[TypedAlignment[L].Opposite].VALUE = last.result
                     /\ TypedAlignment[TypedAlignment[L].Opposite].Opposite = L
    /\ last.op = "Alignment::axis"
           => /\ AlignmentMarkers(last.at) # {}
              /\ \A L \in AlignmentMarkers(last.at) :
                     /\ TypedAxis[TypedAlignment[L].Axis].VALUE = last.result
                     /\ TypedAlignment[TypedAlignment[L].Opposite].Axis = TypedAlignment[L].Axis
    /\ last.op \in {"HorizontalAlignment::opposite", "VerticalAlignment::opposite"}
           => /\ last.result # last.at
              /\ \E L \in DOMAIN TypedAlignment :
                     /\ TypedAlignment[L].VALUE[2] = last.at
                     /\ TypedAlignment[TypedAlignment[L].Opposite].VALUE[2] = last.result
              /\ AlignmentOpposite(<<IF last.at \in {"Left", "Right"} THEN "Horizontal"
                                     ELSE "Vertical", last.at>>)[2] = last.result
    /\ last.op = "Axis::origin"
           => /\ AlignmentAxis(last.result) = last.at
              /\ AxisMarkers(last.at) # {}
              /\ \A A \in AxisMarkers(last.at) :
                     /\ TypedAlignment[TypedAxis[A].Origin].VALUE = last.result
                     /\ TypedAlignment[TypedAxis[A].Origin].Axis = A
                     /\ TypedAxis[A].Orthogonal # A
                     /\ TypedAxis[TypedAxis[A].Orthogonal].Orthogonal = A

\* opposite() was called on LEFT and returned RIGHT.
C16_Witness ==
    /\ last.op = "Alignment::opposite"
    /\ last.at = ValuedAlignment.LEFT
    /\ last.result = ValuedAlignment.RIGHT

\* The field of an aggregate on the side of a direction or axis.
FieldOf ==
    [Left |-> "left", Right |-> "right", Top |-> "top", Bottom |-> "bottom",
     LeftRight |-> "horizontal", TopBottom |-> "vertical"]

\* C17: aligned(d) returns the field on side d of every aggregate,
\* Quadrant::aligned(v, h) the corner in row v and column h, and the
\* type-directed accessors the field the valued aligned returns for the
\* marker's VALUE.
C17_ExtractionByDirection ==
    /\ last.op \in {"Horizontal::aligned", "Vertical::aligned"}
           => last.result = last.data[FieldOf[last.at]]
    /\ last.op = "Square::aligned"
           => last.result = last.data[FieldOf[last.at[2]]]
    /\ last.op = "Quadrant::aligned"
           => last.result = last.data[FieldOf[last.at[1]]][FieldOf[last.at[2]]]
    /\ last.op \in {"horizontally_aligned_at", "vertically_aligned_at"}
           => /\ last.result = last.data[FieldOf[last.at]]
              /\ "top" \in DOMAIN last.data /\ "left" \in DOMAIN last.data
                     => last.result = SquareAligned(last.data, TypedAlignment[last.at].VALUE)
              /\ DOMAIN last.data = {"left", "right"}
                     => last.result = HorizontalAligned(last.data, TypedAlignment[last.at].VALUE[2])
              /\ DOMAIN last.data = {"top", "bottom"}
                     => last.result = VerticalAligned(last.data, TypedAlignment[last.at].VALUE[2])
    /\ last.op = "axially_aligned_at"
           => last.result = last.data[FieldOf[TypedAxis[last.at].VALUE]]

\* aligned(Right) was called on a Horizontal whose fields differ and
\* returned the right field.
C17_Witness ==
    /\ last.op = "Horizontal::aligned"
    /\ last.at = "Right"
    /\ last.data.left # last.data.right
    /\ last.result = last.data.right

\* The operation of Block that pads at, pads to, or joins at `side`.
SideOperation(kind, side, block, n, other) ==
    CASE kind = "pad_at" /\ side = "Left" -> PadAtLeft(block, n)
      [] kind = "pad_at" /\ side = "Right" -> PadAtRight(block, n)
      [] kind = "pad_at" /\ side = "Top" -> PadAtTop(block, n)
      [] kind = "pad_at" /\ side = "Bottom" -> PadAtBottom(block, n)
      [] kind = "pad_to" /\ side = "Left" -> PadToWidthAtLeft(block, n)
      [] kind = "pad_to" /\ side = "Right" -> PadToWidthAtRight(block, n)
      [] kind = "pad_to" /\ side = "Top" -> PadToHeightAtTop(block, n)
      [] kind = "pad_to" /\ side = "Bottom" -> PadToHeightAtBottom(block, n)
      [] kind = "join" /\ side = "Left" -> JoinTopToBottomAtLeft(block, other)
      [] kind = "join" /\ side = "Right" -> JoinTopToBottomAtRight(block, other)
      [] kind = "join" /\ side = "Top" -> JoinLeftToRightAtTop(block, other)
      [] kind = "join" /\ side = "Bottom" -> JoinLeftToRightAtBottom(block, other)

\* The kind of each method, and whether it acts on the bound side.
MethodKind ==
    [pad_horizontal |-> <<"pad_at", TRUE>>, pad_horizontal_opposite |-> <<"pad_at", FALSE>>,
     pad_to_width |-> <<"pad_to", TRUE>>, pad_to_width_opposite |-> <<"pad_to", FALSE>>,
     join_top_to_bottom |-> <<"join", TRUE>>, join_top_to_bottom_opposite |-> <<"join", FALSE>>,
     pad_vertical |-> <<"pad_at", TRUE>>, pad_vertical_opposite |-> <<"pad_at", FALSE>>,
     pad_to_height |-> <<"pad_to", TRUE>>, pad_to_height_opposite |-> <<"pad_to", FALSE>>,
     join_left_to_right |-> <<"join", TRUE>>, join_left_to_right_opposite |-> <<"join", FALSE>>]

\* The method that does the same on the other side.
OppositeMethod ==
    [pad_horizontal |-> "pad_horizontal_opposite", pad_horizontal_opposite |-> "pad_horizontal",
     pad_to_width |-> "pad_to_width_opposite", pad_to_width_opposite |-> "pad_to_width",
     join_top_to_bottom |-> "join_top_to_bottom_opposite",
     join_top_to_bottom_opposite |-> "join_top_to_bottom",
     pad_vertical |-> "pad_vertical_opposite", pad_vertical_opposite |-> "pad_vertical",
     pad_to_height |-> "pad_to_height_opposite", pad_to_height_opposite |-> "pad_to_height",
     join_left_to_right |-> "join_left_to_right_opposite",
     join_left_to_right_opposite |-> "join_left_to_right"]

\* C18: a method of an AlignedBlock bound to (V, H) returns what the
\* underlying block's operation on the bound side returns (on the opposite
\* side for the _opposite methods), panics included, and keeps the binding;
\* it returns the same block as the opposite method of a block bound to the
\* opposite side.
C18_DirectionallyBound ==
    /\ last.op \in HorizontalMethods
           => LET bound == last.self.H
                  side == IF MethodKind[last.op][2] THEN bound ELSE TypedAlignment[bound].Opposite
              IN  /\ blk.block = SideOperation(MethodKind[last.op][1], side, last.self.block,
                                               last.n, last.other)
                  /\ blk.block = HorizontalBlock(OppositeMethod[last.op],
                                                 TypedAlignment[bound].Opposite,
                                                 last.self.block, last.n, last.other)
                  /\ blk.H = last.self.H /\ blk.V = last.self.V
    /\ last.op \in VerticalMethods
           => LET bound == last.self.V
                  side == IF MethodKind[last.op][2] THEN bound ELSE TypedAlignment[bound].Opposite
              IN  /\ blk.block = SideOperation(MethodKind[last.op][1], side, last.self.block,
                                               last.n, last.other)
                  /\ blk.block = VerticalBlock(OppositeMethod[last.op],
                                               TypedAlignment[bound].Opposite,
                                               last.self.block, last.n, last.other)
                  /\ blk.H = last.self.H /\ blk.V = last.self.V

\* pad_horizontal_opposite(1) of a Right-bound Content block put a column
\* of spaces at its left.
C18_Witness ==
    /\ last.op = "pad_horizontal_opposite"
    /\ last.self.H = "Right"
    /\ last.n = 1
    /\ last.self.block.mode = "Content"
    /\ blk.block.mode = "Content"
    /\ Len(blk.block.lines) > 0
    /\ Text(blk.block.lines[1])[1] = SPACE
    /\ Text(last.self.block.lines[1])[1] # SPACE

\* C19: pad_at_left(n) and pad_at_right(n) return a block n wider and as
\* high, pad_at_top(n) and pad_at_bottom(n) one n higher and as wide, for
\* Empty and Content blocks of any size; the rows of a Content result are
\* the original rows in order, with the spaces on the padded side.
C19_PadAtAdds ==
    last.op \in PadAtOps
        => LET b == last.self
               n == last.n
               dx == IF last.op = "pad_at_left" THEN n ELSE 0
               dy == IF last.op = "pad_at_top" THEN n ELSE 0
               horizontal == last.op \in {"pad_at_left", "pad_at_right"}
           IN  /\ blk.mode # "Panic"
               /\ BlockWidth(blk) = BlockWidth(b) + (IF horizontal THEN n ELSE 0)
               /\ BlockHeight(blk) = BlockHeight(b) + (IF horizontal THEN 0 ELSE n)
               /\ blk.mode = "Content"
                      => \A i \in 1..BlockHeight(blk) : \A k \in 1..BlockWidth(blk) :
                             CellAt(blk, i, k) = CellAt(b, i - dy, k - dx)

\* C20: Block::filled(w, h, g) with h > 0, that is the fill of the Empty
\* block (w, h) with the grapheme g, is a Content block of width w and
\* height h whose rows are w copies of g, double-width graphemes included.
C20_GraphemeFill ==
    (last.op = "fill_grapheme" /\ last.self.mode = "Empty" /\ last.self.height > 0)
        => /\ blk.mode = "Content"
           /\ BlockWidth(blk) = last.self.width
           /\ BlockHeight(blk) = last.self.height
           /\ \A i \in 1..Len(blk.lines) :
                  Text(blk.lines[i]) = [k \in 1..last.self.width |-> last.glyph]

(* --------------------------------------------------------- primitive *)
MaxLength == 4

\* Terminal::Only(x) is <<"Only", x>>, Terminal::StartEnd(s, e) is
\* <<"StartEnd", s, e>>.  Terminal::start, by only_or_else
TerminalStart(terminal) == terminal[2]

\* Terminal::end, by only_or_else
TerminalEnd(terminal) == IF terminal[1] = "Only" THEN terminal[2] ELSE terminal[3]

\* LinePalette {only, middle, terminal}
LinePalette(only, middle, terminal) == [only |-> only, middle |-> middle, terminal |-> terminal]

\* LinePalette::uniform
Uniform(g) == LinePalette(g, g, <<"Only", g>>)

\* AxialPalette::aligned_at::<A>: a LinePalette serves both axes, an Axial of
\* palettes the one of the axis.
AlignedAt(palette, A) ==
    IF "horizontal" \in DOMAIN palette THEN AxialDecoder(A, palette) ELSE palette

\* FromCell::from_cell: the content of one glyph.
FromCell(g) == Grapheme(g)

\* WithLength::<A>::with_length(length, width): `length` along the axis.
WithLength(A, length, width) ==
    IF A = "LeftRight" THEN WithDimensions(length, width) ELSE WithDimensions(width, length)

\* Join::<A, OrthogonalOrigin<A>>::join: along the axis, at the origin of
\* the orthogonal axis.
Join(A, block, other) ==
    IF TypedAxis[TypedAxis[A].Orthogonal].Origin = "Top"
    THEN JoinLeftToRightAtTop(block, other)
    ELSE JoinTopToBottomAtLeft(block, other)

\* A line whose middle part is one glyph too long.
LineLongMiddle(A, length, palette) ==
    LET p == AlignedAt(palette, A)
    IN  IF length = 0 THEN Zero
        ELSE IF length = 1 THEN WithContent(FromCell(p.only))
        ELSE Join(A, Join(A, WithContent(FromCell(TerminalStart(p.terminal))),
                          FillContent(WithLength(A, length - 1, 1), FromCell(p.middle))),
                  WithContent(FromCell(TerminalEnd(p.terminal))))

\* impl Line<A, C> for Block<C>
Line(A, length, palette) ==
    LET p == AlignedAt(palette, A)
    IN  IF length = 0 THEN Zero
        ELSE IF length = 1 THEN WithContent(FromCell(p.only))
        ELSE Join(A, Join(A, WithContent(FromCell(TerminalStart(p.terminal))),
                          FillContent(WithLength(A, length - 2, 1), FromCell(p.middle))),
                  WithContent(FromCell(TerminalEnd(p.terminal))))

\* The glyphs of the palettes: cells of one column.
Cells1 == {"-", "<", ">"}

Terminals == {<<"Only", g>> : g \in Cells1} \cup {<<"StartEnd", s, e>> : s \in Cells1, e \in Cells1}

\* Palettes handed to line: every LinePalette over the glyphs, and Axial
\* pairs of uniform palettes.
Palettes ==
    {LinePalette(o, m, t) : o \in Cells1, m \in Cells1, t \in Terminals}
        \cup {[horizontal |-> Uniform(h), vertical |-> Uniform(v)] : h \in Cells1, v \in Cells1}

LineInit ==
    /\ C \in {"String", "Styled"}
    /\ checked \in (IF C = "String" THEN {TRUE} ELSE BOOLEAN)
    /\ steps = 0
    /\ blk = Zero
    /\ last = [op |-> "new", axis |-> "LeftRight", length |-> 0, palette |-> Uniform("-")]

\* Line::<A, _>::line(length, &palette) constructs a block: one call, and
\* blk is the block returned.
CallLine ==
    \E A \in DOMAIN TypedAxis, length \in 0..MaxLength, palette \in Palettes :
        /\ last.op = "new"
        /\ blk' = Line(A, length, palette)
        /\ last' = [op |-> "line", axis |-> A, length |-> length, palette |-> palette]
        /\ UNCHANGED <<C, checked, steps>>

LineNext == CallLine

LineSpec == LineInit /\ [][LineNext]_vars

\* The glyphs of a line of length L >= 2 in order along the axis.
LineGlyphs(p, L) ==
    <<TerminalStart(p.terminal)>> \o [k \in 1..(L - 2) |-> p.middle] \o <<TerminalEnd(p.terminal)>>

C22_FillCycles ==
    (last.op = "fill_content" /\ BlockHeight(last.self) > 0
        /\ Len(IntoLines(last.content)) >= 1
        /\ \A i \in 1..Len(IntoLines(last.content)) : Width(IntoLines(last.content)[i]) > 0)
        => LET lines == IntoLines(last.content)
               n == Len(lines)
               w == BlockWidth(last.self)
               h == BlockHeight(last.self)
           IN  /\ blk.mode = "Content"
               /\ Len(blk.lines) = h
               /\ \A k \in 1..Len(blk.lines) :
                      LET row == StyledGlyphs(blk.lines[k])
                          line == StyledGlyphs(lines[((k - 1) % n) + 1])
                      IN  /\ Width(blk.lines[k]) = w
                          /\ \A j \in 1..Len(row) : row[j] = line[((j - 1) % Len(line)) + 1]

\* Whether every grapheme of a content value takes one column.
SingleWidth(c) == \A i \in 1..Len(Text(c)) : GlyphWidth(Text(c)[i]) = 1

\* C23: truncate(width) of styled content of single-width glyphs, whatever
\* its runs, returns without underflow content of width
\* min(width, original width) whose glyphs and styles are a prefix of the
\* original, also when the cut falls on a run boundary with further runs
\* following and when two or more runs lie beyond the cut.
C23_StyledTruncate ==
    (last.op = "truncate" /\ C = "Styled" /\ SingleWidth(last.self))
        => /\ ~last.panicked
           /\ Width(last.result) = Min(last.n, Width(last.self))
           /\ Len(StyledGlyphs(last.result)) <= Len(StyledGlyphs(last.self))
           /\ StyledGlyphs(last.result)
                  = SubSeq(StyledGlyphs(last.self), 1, Len(StyledGlyphs(last.result)))

\* C24: overlay of any two blocks, in any combination of modes and with
\* operands of height 0 included, returns a block without panicking: the
\* rows handed to the content-level overlay are congruent, and the Empty
\* operand of a mixed pair, padded to the union size for filling, does not
\* have height 0.
C24_OverlayNeverFails ==
    last.op = "overlay"
        => LET front == last.self
               back == last.other
               width == Max(BlockWidth(front), BlockWidth(back))
               height == Max(BlockHeight(front), BlockHeight(back))
               empty == IF front.mode = "Empty" THEN front ELSE back
           IN  /\ blk.mode # "Panic"
               /\ front.mode # back.mode
                      => EmptyPadToHeightAtBottom(EmptyPadToWidthAtRight(empty, width),
                                                  height).height > 0
               /\ (front.mode = "Content" /\ back.mode = "Content")
                      => LET f == ContentPadToWidthAtRight(
                                      ContentPadToHeightAtBottom(front, height), width)
                             b == ContentPadToWidthAtRight(
                                      ContentPadToHeightAtBottom(back, height), width)
                         IN  /\ Len(f.lines) = Len(b.lines)
                             /\ \A i \in 1..Len(f.lines) : IsCongruent(f.lines[i], b.lines[i])

\* The side the decision `f` picks at each of the zipped graphemes.
ChosenLayers(front, back, f) ==
    [i \in 1..Min(Len(StyledGlyphs(front)), Len(StyledGlyphs(back))) |->
        Decide(f, StyledGlyphs(front)[i][2], StyledGlyphs(back)[i][2])]

\* C25: for congruent styled contents and any decision, the i-th glyph of
\* overlay_with's result is the i-th glyph of the side chosen there, with
\* the style of the run it belongs to on that side; the grouping into runs
\* leaves the sequence of (style, glyph) pairs as chosen.
C25_StyledOverlayStyle ==
    (last.op = "overlay_with" /\ C = "Styled")
        => LET fg == StyledGlyphs(last.self)
               bg == StyledGlyphs(last.other)
               rg == StyledGlyphs(last.result)
               layers == ChosenLayers(last.self, last.other, last.f)
           IN  /\ ~last.panicked
               /\ Len(rg) = Len(layers)
               /\ \A i \in 1..Len(rg) : rg[i] = IF layers[i] = "Front" THEN fg[i] ELSE bg[i]

\* The default decision took a glyph of the back and a glyph of the front,
\* of different styles.
C25_Witness ==
    /\ last.op = "overlay_with"
    /\ C = "Styled"
    /\ last.f = "default"
    /\ \E i, j \in 1..Len(ChosenLayers(last.self, last.other, last.f)) :
           /\ ChosenLayers(last.self, last.other, last.f)[i] = "Front"
           /\ ChosenLayers(last.self, last.other, last.f)[j] = "Back"
           /\ StyledGlyphs(last.self)[i][1] # StyledGlyphs(last.other)[j][1]
           /\ StyledGlyphs(last.result)[i][1] # StyledGlyphs(last.result)[j][1]

\* C26: in the output of a styled overlay consecutive glyphs of one style
\* are in one run: no two adjacent runs have the same style, whether their
\* glyphs came from two runs of one side or from front and back.
C26_StyledOverlayCoalesces ==
    (last.op = "overlay_with" /\ C = "Styled")
        => \A i \in 1..(Len(last.result) - 1) : last.result[i][1] # last.result[i + 1][1]

\* Where a join puts its operands: the result is `width` by `height`, and
\* its cell at (i, k) is the cell of `first` moved by (dy1, dx1) inside the
\* rectangle of `first`, and the cell of `second` moved by (dy2, dx2)
\* elsewhere; cells outside an operand's rows are spaces.
Placed(result, first, second, width, height, dy1, dx1, dy2, dx2, inFirst(_, _)) ==
    /\ result.mode # "Panic"
    /\ BlockWidth(result) = width
    /\ BlockHeight(result) = height
    /\ result.mode = "Content"
           => \A i \in 1..height : \A k \in 1..width :
                  CellAt(result, i, k) = IF inFirst(i, k)
                                         THEN CellAt(first, i - dy1, k - dx1)
                                         ELSE CellAt(second, i - dy2, k - dx2)

\* C27: when one operand of a join is shorter (narrower) than the other,
\* join_left_to_right_at_top puts its rows in the top rows of the result
\* with blank rows below, join_left_to_right_at_bottom in the bottom rows
\* with blank rows above, join_top_to_bottom_at_left keeps the narrower
\* operand in the leftmost columns and join_top_to_bottom_at_right in the
\* rightmost columns.
C27_JoinAlignment ==
    LET a == last.self
        b == last.other
        wa == BlockWidth(a)
        wb == BlockWidth(b)
        ha == BlockHeight(a)
        hb == BlockHeight(b)
        w == Max(wa, wb)
        h == Max(ha, hb)
    IN  /\ (last.op = "join_left_to_right_at_top" /\ ha # hb)
               => Placed(blk, a, b, wa + wb, h, 0, 0, 0, wa, LAMBDA i, k : k <= wa)
        /\ (last.op = "join_left_to_right_at_bottom" /\ ha # hb)
               => Placed(blk, a, b, wa + wb, h, h - ha, 0, h - hb, wa, LAMBDA i, k : k <= wa)
        /\ (last.op = "join_top_to_bottom_at_left" /\ wa # wb)
               => Placed(blk, a, b, w, ha + hb, 0, 0, ha, 0, LAMBDA i, k : i <= ha)
        /\ (last.op = "join_top_to_bottom_at_right" /\ wa # wb)
               => Placed(blk, a, b, w, ha + hb, 0, w - wa, ha, w - wb, LAMBDA i, k : i <= ha)

\* C28: into_lines of styled content of one or more runs returns one value
\* per line of the concatenated text of its runs, a line break at the very end of a run that
\* another run follows included, and every glyph keeps the style of its run.
C28_StyledIntoLines ==
    (last.op = "into_lines" /\ C = "Styled" /\ Len(last.self) >= 1)
        => LET expected == StrLines(Text(last.self))
           IN  /\ Len(last.result) = Len(expected)
               /\ \A i \in 1..Len(last.result) : Text(last.result[i]) = expected[i]
               /\ Flatten([i \in 1..Len(last.result) |-> StyledGlyphs(last.result[i])])
                      = SelectSeq(StyledGlyphs(last.self), LAMBDA g : g[2] # NL)

\* C29: for every block b, Empty of any recorded size or Content, and
\* content c of n lines, b.push(c) is a Content block (is_empty() is false),
\* height(b) + n high and as wide as the wider of b and the widest line of c.
C29_PushMaterializes ==
    last.op = "push"
        => /\ blk.mode = "Content"
           /\ BlockHeight(blk) = BlockHeight(last.self) + Len(IntoLines(last.content))
           /\ BlockWidth(blk) = Max(BlockWidth(last.self), SliceWidth(IntoLines(last.content)))

(* ------------------------------------------------------------ rotations *)
MaxRotations == 2

\* impl Rotate<L> for Horizontal<T>: Left is the origin (the identity),
\* Right swaps the fields, Top and Bottom give a Vertical.
HorizontalRotate(L, data) ==
    CASE L = "Left" -> data
      [] L = "Right" -> [left |-> data.right, right |-> data.left]
      [] L = "Top" -> [top |-> data.left, bottom |-> data.right]
      [] L = "Bottom" -> [top |-> data.right, bottom |-> data.left]

\* Invert for Horizontal<T>: the rotation to the opposite of the origin.
HorizontalInvert(data) == HorizontalRotate(TypedAlignment["Left"].Opposite, data)

\* Horizontal<Vertical<T>>::transpose
HorizontalTranspose(data) ==
    [top |-> [left |-> data.left.top, right |-> data.right.top],
     bottom |-> [left |-> data.left.bottom, right |-> data.right.bottom]]

\* impl Rotate<L> for Quadrant<T>: Top is the origin.
QuadrantRotate(L, data) ==
    CASE L = "Top" -> data
      [] L = "Left" -> HorizontalTranspose([left |-> HorizontalRotate("Bottom", data.top),
                                            right |-> HorizontalRotate("Bottom", data.bottom)])
      [] L = "Right" -> HorizontalTranspose([left |-> HorizontalRotate("Top", data.top),
                                             right |-> HorizontalRotate("Top", data.bottom)])
      [] L = "Bottom" -> [top |-> HorizontalInvert(data.bottom),
                          bottom |-> HorizontalInvert(data.top)]

\* impl Rotate<L> for Perimeter<T>: Top is the origin.
PerimeterRotate(L, data) ==
    CASE L = "Top" -> data
      [] L = "Left" -> [left |-> data.top, right |-> data.bottom,
                        top |-> data.right, bottom |-> data.left]
      [] L = "Right" -> [left |-> data.bottom, right |-> data.top,
                         top |-> data.left, bottom |-> data.right]
      [] L = "Bottom" -> [left |-> data.right, right |-> data.left,
                          top |-> data.bottom, bottom |-> data.top]

\* A Quadrant or a Perimeter (the four fields left, right, top, bottom) is
\* built; `data` keeps it, `result` is the value rotated so far by the
\* rotations `at`.
RotateInit ==
    /\ C = "String"
    /\ checked = TRUE
    /\ steps = 0
    /\ blk = Zero
    /\ \E data \in Aggregates.Quadrant \cup Aggregates.Square :
           last = [op |-> "new", data |-> data, at |-> <<>>, result |-> data]

Rotated(L, result) ==
    /\ steps < MaxRotations
    /\ last' = [op |-> "rotate", data |-> last.data, at |-> Append(last.at, L),
                result |-> result]
    /\ steps' = steps + 1
    /\ UNCHANGED <<C, checked, blk>>

CallQuadrantRotate ==
    \E L \in DOMAIN TypedAlignment :
        /\ last.data \in Aggregates.Quadrant
        /\ Rotated(L, QuadrantRotate(L, last.result))

CallPerimeterRotate ==
    \E L \in DOMAIN TypedAlignment :
        /\ last.data \in Aggregates.Square
        /\ Rotated(L, PerimeterRotate(L, last.result))

RotateNext ==
    \/ CallQuadrantRotate
    \/ CallPerimeterRotate

RotateSpec == RotateInit /\ [][RotateNext]_vars

\* C30: for a Perimeter and for a Quadrant, Rotate<Left> followed by
\* Rotate<Right> returns the original value, Rotate<Left> applied twice
\* equals Rotate<Bottom>, and Rotate<Bottom> applied twice returns the
\* original value.
C30_RotationsConsistent ==
    /\ last.at = <<"Left", "Right">> => last.result = last.data
    /\ last.at = <<"Left", "Left">>
           => last.result = IF last.data \in Aggregates.Quadrant
                            THEN QuadrantRotate("Bottom", last.data)
                            ELSE PerimeterRotate("Bottom", last.data)
    /\ last.at = <<"Bottom", "Bottom">> => last.result = last.data

====
